---- MODULE Spec2Model ----
(***************************************************************************)
(* State-estimation co-simulation (openEDI/sgidal-example).                *)
(*                                                                         *)
(* Three kinds of federate are modelled from their sources:                *)
(*   - the state estimator federate  (wls_federate/state_estimator_...py)  *)
(*   - the measurement relay         (measuring_federate/measuring_...py)  *)
(*   - the feeder producer           (LocalFeeder/sender_cosim.py)         *)
(* The synchronization substrate (HELICS) and the numerical solver (scipy  *)
(* least_squares) are external: the substrate's grants and deliveries and  *)
(* the solver's result vector are nondeterministic choices from bounded    *)
(* sets.  A federate shares no memory with the others and here receives    *)
(* its inputs from the substrate, so a behaviour follows one federate      *)
(* process: `running` names it.  Pure functions are exercised by the "fn"  *)
(* process, whose inputs are drawn in Init.                                *)
(*                                                                         *)
(* Indices are Python's: 0-based.  At(s, i) reads s[i].                    *)
(***************************************************************************)
EXTENDS Integers, Sequences, FiniteSets, TLC

VARIABLES
    running,           \* which process this behaviour follows
    \* ---- StateEstimatorFederate ----
    est_pc,            \* position in StateEstimatorFederate.run
    est_granted,       \* granted_time
    est_initial_ang,   \* self.initial_ang
    est_initial_V,     \* self.initial_V
    est_params,        \* self.algorithm_parameters
    est_topology,      \* payload of sub_topology
    est_sub_V,         \* sub_voltages_magnitude: payload, freshness flag
    est_sub_P,         \* sub_power_P
    est_sub_Q,         \* sub_power_Q
    est_result,        \* (voltage_magnitudes, voltage_angles, voltages.time) of the tick
    est_pub_mag,       \* what pub_voltage_mag has published: count and last array
    est_pub_angle,     \* what pub_voltage_angle has published
    est_vfed,          \* the substrate connection: disconnects, frees
    est_hist,          \* history: requests, calls of state_estimator, solves, ...
    \* ---- MeasurementRelay ----
    relay_pc,          \* position in MeasurementRelay.run
    relay_granted,     \* granted_time
    relay_sub,         \* sub_measurement
    relay_rng,         \* self.rng: the number of draws made
    relay_measurement, \* self.measurement: the id list last loaded from the file
    relay_pub,         \* what pub_measurement has published: count and last array
    relay_vfed,        \* the substrate connection: disconnects, frees
    relay_hist,        \* history: the input and generator position of the last tick
    relay_twin,        \* a second MeasurementRelay instance handed the same inputs
    \* ---- go_cosim ----
    prod_pc,           \* position in go_cosim
    prod_request,      \* request_time of the for loop
    prod_granted,      \* granted_time
    prod_pub,          \* per publication: how many payloads, the time of the last
    prod_vfed,         \* the substrate connection: disconnects, frees
    prod_hist,         \* history: the check of the last tick
    \* ---- pure functions applied to drawn inputs ----
    fn_pc,
    fn_in,
    fn_out

est_vars == << est_pc, est_granted, est_initial_ang, est_initial_V, est_params,
               est_topology, est_sub_V, est_sub_P, est_sub_Q, est_result,
               est_pub_mag, est_pub_angle, est_vfed, est_hist >>

relay_vars == << relay_pc, relay_granted, relay_sub, relay_rng, relay_measurement,
                 relay_pub, relay_vfed, relay_hist, relay_twin >>

prod_vars == << prod_pc, prod_request, prod_granted, prod_pub, prod_vfed, prod_hist >>

fn_vars == << fn_pc, fn_in, fn_out >>

vars == << running, est_vars, relay_vars, prod_vars, fn_vars >>

other_than_est == << running, relay_vars, prod_vars, fn_vars >>
other_than_relay == << running, est_vars, prod_vars, fn_vars >>
other_than_prod == << running, est_vars, relay_vars, fn_vars >>
other_than_fn == << running, est_vars, relay_vars, prod_vars >>

----------------------------------------------------------------------------
(* Bounds of the model *)

\* grants are at times 1..MaxTick; the sentinel is above them all
MaxTick == 2
\* a measurement array has at most MaxMeas entries
MaxMeas == 2

----------------------------------------------------------------------------
(* Values *)

None == [some |-> FALSE]
Some(x) == [some |-> TRUE, v |-> x]

Range(s) == { s[i] : i \in DOMAIN s }
At(s, i) == s[i + 1]
IsInjective(s) == \A i, j \in DOMAIN s : s[i] = s[j] => i = j
Full(n, x) == [ i \in 1..n |-> x ]

RECURSIVE SumSeq(_)
SumSeq(s) == IF s = << >> THEN 0 ELSE Head(s) + SumSeq(Tail(s))

RECURSIVE Gcd(_, _)
Gcd(a, b) == IF b = 0 THEN a ELSE Gcd(b, a % b)
Abs(a) == IF a < 0 THEN -a ELSE a

\* exact fractions <<numerator, denominator>> in lowest terms, denominator > 0
Rat(n, d) ==
    LET g == Gcd(Abs(n), Abs(d))
        s == IF d < 0 THEN -1 ELSE 1
    IN  << (s * n) \div g, (s * d) \div g >>
RatAdd(p, q) == Rat(p[1] * q[2] + q[1] * p[2], p[2] * q[2])
RatDivInt(p, k) == Rat(p[1], p[2] * k)
RatNeg(p) == << -p[1], p[2] >>
RatSub(p, q) == RatAdd(p, RatNeg(q))
RatMul(p, q) == Rat(p[1] * q[1], p[2] * q[2])
RECURSIVE RatSum(_)
RatSum(s) == IF s = << >> THEN Rat(0, 1) ELSE RatAdd(Head(s), RatSum(Tail(s)))
\* np.mean of a non-empty vector of fractions
RatMean(s) == RatDivInt(RatSum(s), Len(s))

\* complex numbers <<re, im>> of exact fractions
CRAdd(a, b) == << RatAdd(a[1], b[1]), RatAdd(a[2], b[2]) >>
CRMul(a, b) == << RatSub(RatMul(a[1], b[1]), RatMul(a[2], b[2])),
                  RatAdd(RatMul(a[1], b[2]), RatMul(a[2], b[1])) >>
CRConj(a) == << a[1], RatNeg(a[2]) >>
CRScale(a, r) == << RatMul(a[1], r), RatMul(a[2], r) >>
RECURSIVE CRSum(_)
CRSum(s) == IF s = << >> THEN << Rat(0, 1), Rat(0, 1) >> ELSE CRAdd(Head(s), CRSum(Tail(s)))
\* np.exp(1j * delta) for delta = q quarter turns (q * pi / 2)
ExpI(q) == LET u == << << 1, 0 >>, << 0, 1 >>, << -1, 0 >>, << 0, -1 >> >>[(q % 4) + 1]
           IN  << Rat(u[1], 1), Rat(u[2], 1) >>

\* the sentinel h.HELICS_TIME_MAXTIME: above every time a run is granted
HELICS_TIME_MAXTIME == MaxTick + 1

----------------------------------------------------------------------------
(* Data types (gadal_types.data_types, as the sources construct them) *)

\* MeasurementArray and its variants; a field not given is None
MeasurementArray(values, ids, units, equipment_type, accuracy, bad_data_threshold, time) ==
    [ values |-> values, ids |-> ids, units |-> units,
      equipment_type |-> equipment_type, accuracy |-> accuracy,
      bad_data_threshold |-> bad_data_threshold, time |-> time ]

\* the canonical node ids of the run, and an id no topology holds
CanonIds == << "n1", "n2" >>
ForeignId == "zz"
NumNodes == Len(CanonIds)

\* every duplicate-free id list of 1..MaxMeas entries over the ids
IdLists(S) ==
    { s \in UNION { [1..n -> S] : n \in 1..MaxMeas } : IsInjective(s) }

Topology(kind, angles, slack_bus) ==
    [ admittance |-> [ kind |-> kind, ids |-> CanonIds ],
      base_voltage_angles |-> [ values |-> angles, ids |-> SubSeq(CanonIds, 1, Len(angles)) ],
      base_voltage_magnitudes |-> [ values |-> [ i \in 1..NumNodes |-> 2 * i ], ids |-> CanonIds ],
      slack_bus |-> slack_bus ]

\* topologies a producer can publish: slack_bus is a non-empty run of the ids
Topologies ==
    { Topology("AdmittanceMatrix", [ i \in 1..NumNodes |-> i - 1 ], << CanonIds[1] >>),
      Topology("AdmittanceMatrix", [ i \in 1..NumNodes |-> i - 1 ], << CanonIds[NumNodes] >>),
      Topology("AdmittanceMatrix", [ i \in 1..NumNodes |-> i - 1 ], CanonIds),
      Topology("AdmittanceMatrix", [ i \in 1..(NumNodes - 1) |-> i - 1 ], << CanonIds[1] >>),
      Topology("AdmittanceSparse", [ i \in 1..NumNodes |-> i - 1 ], << CanonIds[1] >>) }

\* an enumeration that admits a third member
UnitSystemOpen == { "SI", "PER_UNIT", "OTHER" }
UnitSystem == { "SI", "PER_UNIT" }
\* AlgorithmParameters.units as state_estimator may be handed it
UnitValues == UnitSystem \cup { "OTHER" }

----------------------------------------------------------------------------
(* wls_federate/state_estimator_federate.py: functions *)

\* inv_map[v] of {v: i for i, v in enumerate(ids)}: the last position of v
\* positions counted from the end of the list
InvMapReversed(ids, v) == CHOOSE i \in 0..(Len(ids) - 1) : At(ids, Len(ids) - 1 - i) = v
\* inv_map = {v: i for i, v in enumerate(topology.admittance.ids)}
InvMap(ids, v) == CHOOSE i \in 0..(Len(ids) - 1) :
                    /\ At(ids, i) = v
                    /\ \A j \in 0..(Len(ids) - 1) : At(ids, j) = v => j <= i

\* a lookup that tolerates a missing id: inv_map.get(v, 0)
get_indices_zero(ids, mids) ==
    [ raised |-> "",
      idx |-> [ k \in DOMAIN mids |->
                  IF mids[k] \in Range(ids) THEN InvMap(ids, mids[k]) ELSE 0 ] ]

\* get_indices(topology, measurement) over topology.admittance.ids
get_indices(ids, mids) ==
    IF \E k \in DOMAIN mids : mids[k] \notin Range(ids)
    THEN [ raised |-> "KeyError", idx |-> << >> ]
    ELSE [ raised |-> "", idx |-> [ k \in DOMAIN mids |-> InvMap(ids, mids[k]) ] ]

\* np.full(num_node, x) unless x is an ndarray already
AsVector(x, n) == IF x.kind = "ndarray" THEN x.val ELSE Full(n, x.val)

Failed(why, solved) ==
    [ raised |-> why, solved |-> solved, mag |-> << >>, ang |-> << >>, ang_ndim |-> 0 ]

\* a shift by the angle of the first node whatever the slack index
ShiftAnglesFirst(ang, slack_index) == [ i \in DOMAIN ang |-> ang[i] - ang[1] ]

\* vangestDecen - vangestDecen[slack_index]; indexing with None adds an axis
ShiftAngles(ang, slack_index) ==
    IF slack_index.some THEN [ i \in DOMAIN ang |-> ang[i] - At(ang, slack_index.v) ]
    ELSE [ i \in DOMAIN ang |-> 0 ]

\* the if / elif / else over parameters.units: the else raises
units_supported_any(units) == TRUE
units_supported(units) == units \in UnitSystem

\* m.array of a measurement array m: an attribute the arrays of this program
\* are never given (they carry values, ids, units, equipment_type, accuracy,
\* bad_data_threshold, time), so reading it raises AttributeError
has_array(m) == "array" \in DOMAIN m

\* state_estimator; res_x is the vector least_squares returns (res_1.x).  The SI
\* branch builds z from V.array, P.array, Q.array; the PER_UNIT branch from .values
state_estimator(parameters, topology, P, Q, V, initial_ang, initial_V, slack_index, res_x) ==
    LET ids == topology.admittance.ids
        num_node == Len(ids)
        base_voltages == topology.base_voltage_magnitudes.values
        knownP == get_indices(ids, P.ids)
        knownQ == get_indices(ids, Q.ids)
        knownV == get_indices(ids, V.ids)
        delta == AsVector(initial_ang, num_node)
        Vabs == AsVector(initial_V, num_node)
        vmagestDecen == SubSeq(res_x, num_node + 1, 2 * num_node)
        vangestDecen == ShiftAngles(SubSeq(res_x, 1, num_node), slack_index)
    IN  IF knownP.raised # "" \/ knownQ.raised # "" \/ knownV.raised # ""
        THEN Failed("KeyError", FALSE)
        ELSE IF ~units_supported(parameters.units)
        THEN Failed("Exception", FALSE)
        ELSE IF parameters.units = "SI" /\ ~(has_array(V) /\ has_array(P) /\ has_array(Q))
        THEN Failed("AttributeError", FALSE)
        ELSE IF Len(delta) # num_node \/ Len(Vabs) # num_node
        THEN Failed("AssertionError", FALSE)
        ELSE IF slack_index.some /\ slack_index.v \notin 0..(num_node - 1)
        THEN Failed("IndexError", TRUE)
        ELSE [ raised |-> "", solved |-> TRUE,
               mag |-> IF parameters.units = "SI" THEN vmagestDecen
                       ELSE [ i \in 1..num_node |-> vmagestDecen[i] * base_voltages[i] ],
               ang |-> vangestDecen,
               ang_ndim |-> IF slack_index.some THEN 1 ELSE 2 ]

\* cal_h: the predicted measurements at the state (deltaK, VabsK); Y is a matrix
\* of complex fractions, deltaK is in quarter turns, VabsK are fractions
\* the predicted vector with the reactive rows ahead of the real ones
cal_h_QP(knownP, knownQ, knownV, Y, deltaK, VabsK, num_node) ==
    LET Vp == [ i \in 1..num_node |-> CRScale(ExpI(deltaK[i]), VabsK[i]) ]
        S == [ i \in 1..num_node |->
                 CRMul(Vp[i], CRSum([ j \in 1..num_node |->
                                        CRMul(CRConj(Y[i][j]), CRConj(Vp[j])) ])) ]
        h1 == [ k \in DOMAIN knownV |-> At(VabsK, knownV[k]) ]
        h2 == [ k \in DOMAIN knownP |-> At(S, knownP[k])[1] ]
        h3 == [ k \in DOMAIN knownQ |-> At(S, knownQ[k])[2] ]
    IN  h1 \o h3 \o h2
\* cal_h: h = [VabsK[knownV] ; P[knownP] ; Q[knownQ]] of S = Vp * (conj(Y) @ conj(Vp))
cal_h(knownP, knownQ, knownV, Y, deltaK, VabsK, num_node) ==
    LET Vp == [ i \in 1..num_node |-> CRScale(ExpI(deltaK[i]), VabsK[i]) ]
        S == [ i \in 1..num_node |->
                 CRMul(Vp[i], CRSum([ j \in 1..num_node |->
                                        CRMul(CRConj(Y[i][j]), CRConj(Vp[j])) ])) ]
        h1 == [ k \in DOMAIN knownV |-> At(VabsK, knownV[k]) ]
        h2 == [ k \in DOMAIN knownP |-> At(S, knownP[k])[1] ]
        h3 == [ k \in DOMAIN knownQ |-> At(S, knownQ[k])[2] ]
    IN  h1 \o h2 \o h3

\* cal_H: the Jacobian handed to least_squares, -[H1 ; H2 ; H3] with the
\* columns [angle(num_node) ; magnitude(num_node)]; X0 = [deltaK ; VabsK]
cal_H(X0, z, num_node, knownP, knownQ, knownV, Y) ==
    LET nodes == 1..num_node
        deltaK == SubSeq(X0, 1, num_node)
        VabsK == SubSeq(X0, num_node + 1, 2 * num_node)
        zero == << Rat(0, 1), Rat(0, 1) >>
        j1 == << Rat(0, 1), Rat(1, 1) >>
        CRNeg(a) == CRScale(a, Rat(-1, 1))
        Vp == [ i \in nodes |-> CRScale(ExpI(deltaK[i]), VabsK[i]) ]
        YcVc == [ i \in nodes |->
                    CRSum([ j \in nodes |-> CRMul(CRConj(Y[i][j]), CRConj(Vp[j])) ]) ]
        diag(i, j) == IF i = j THEN YcVc[i] ELSE zero
        H_pow2 == [ i \in nodes |-> [ j \in nodes |->
                      CRAdd(CRMul(CRMul(Vp[i], CRConj(Y[i][j])), ExpI(-deltaK[j])),
                            CRMul(ExpI(deltaK[j]), diag(i, j))) ] ]
        H_pow1 == [ i \in nodes |-> [ j \in nodes |->
                      CRMul(CRMul(j1, Vp[i]),
                            CRAdd(diag(i, j),
                                  CRNeg(CRMul(CRConj(Y[i][j]), CRConj(Vp[j]))))) ] ]
        H1 == [ k \in DOMAIN knownV |->
                  [ c \in 1..(2 * num_node) |->
                      IF c = num_node + knownV[k] + 1 THEN Rat(1, 1) ELSE Rat(0, 1) ] ]
        H2 == [ k \in DOMAIN knownP |->
                  [ c \in 1..(2 * num_node) |->
                      IF c <= num_node THEN At(H_pow1, knownP[k])[c][1]
                      ELSE At(H_pow2, knownP[k])[c - num_node][1] ] ]
        H3 == [ k \in DOMAIN knownQ |->
                  [ c \in 1..(2 * num_node) |->
                      IF c <= num_node THEN At(H_pow1, knownQ[k])[c][2]
                      ELSE At(H_pow2, knownQ[k])[c - num_node][2] ] ]
        H == H1 \o H2 \o H3
    IN  [ r \in DOMAIN H |-> [ c \in DOMAIN H[r] |-> RatNeg(H[r][c]) ] ]

\* residual: z - h
residual(z, h) == [ k \in DOMAIN z |-> RatSub(z[k], h[k]) ]

\* matrix_to_numpy: the admittance matrix as complex numbers
matrix_to_numpy(admittance) ==
    [ i \in DOMAIN admittance |->
        [ j \in DOMAIN admittance[i] |->
            << Rat(admittance[i][j][1], 1), Rat(admittance[i][j][2], 1) >> ] ]

\* base_power = 100 unless parameters.base_power is given
base_power_of(parameters) ==
    IF parameters.base_power.some THEN parameters.base_power.v ELSE 100

NoObserved == [ raised |-> "", z |-> << >>, Y |-> << >>,
                knownP |-> << >>, knownQ |-> << >>, knownV |-> << >> ]

\* the z and Y that state_estimator hands to least_squares (lines 111-138)
observed(parameters, topology, P, Q, V) ==
    LET ids == topology.admittance.ids
        base_voltages == topology.base_voltage_magnitudes.values
        knownP == get_indices(ids, P.ids)
        knownQ == get_indices(ids, Q.ids)
        knownV == get_indices(ids, V.ids)
        base_power == base_power_of(parameters)
        Y == matrix_to_numpy(topology.admittance.admittance_matrix)
        none == NoObserved
    IN  IF knownP.raised # "" \/ knownQ.raised # "" \/ knownV.raised # ""
        THEN [ none EXCEPT !.raised = "KeyError" ]
        ELSE IF parameters.units = "SI"
        THEN IF ~(has_array(V) /\ has_array(P) /\ has_array(Q))
             THEN [ none EXCEPT !.raised = "AttributeError", !.knownP = knownP.idx,
                                !.knownQ = knownQ.idx, !.knownV = knownV.idx ]
             ELSE [ raised |-> "",
                    z |-> [ k \in DOMAIN V.array |-> Rat(V.array[k], 1) ]
                          \o [ k \in DOMAIN P.array |-> Rat(-1000 * P.array[k], 1) ]
                          \o [ k \in DOMAIN Q.array |-> Rat(-1000 * Q.array[k], 1) ],
                    Y |-> Y,
                    knownP |-> knownP.idx, knownQ |-> knownQ.idx, knownV |-> knownV.idx ]
        ELSE IF parameters.units = "PER_UNIT"
        THEN [ raised |-> "",
               z |-> [ k \in DOMAIN V.values |->
                         Rat(V.values[k], At(base_voltages, knownV.idx[k])) ]
                     \o [ k \in DOMAIN P.values |-> Rat(-P.values[k], base_power) ]
                     \o [ k \in DOMAIN Q.values |-> Rat(-Q.values[k], base_power) ],
               Y |-> [ i \in DOMAIN Y |->
                         [ j \in DOMAIN Y[i] |->
                             CRScale(Y[i][j],
                                     Rat(base_voltages[j] * base_voltages[i],
                                         base_power * 1000)) ] ],
               knownP |-> knownP.idx, knownQ |-> knownQ.idx, knownV |-> knownV.idx ]
        ELSE [ none EXCEPT !.raised = "Exception" ]

----------------------------------------------------------------------------
(* The substrate as the estimator federate sees it *)

NoArray == MeasurementArray(<< >>, << >>, "", None, None, None, 0)
\* a subscription: has a payload or not, the freshness flag, how many payloads it was sent
NoInput == [ has |-> FALSE, updated |-> FALSE, sn |-> 0, val |-> NoArray ]

\* units of a variant whose class sets them (gadal_types, outside this repository)
ClassUnits == "class-default"

IdNum(id) == IF id = ForeignId THEN NumNodes + 1
             ELSE CHOOSE i \in 1..NumNodes : CanonIds[i] = id
\* the reading of node id taken at time tm
Reading(id, tm) == 2 * IdNum(id) + tm

Measured(ids, tm) ==
    MeasurementArray([ k \in DOMAIN ids |-> Reading(ids[k], tm) ], ids, ClassUnits,
                     None, None, None, tm)

\* what may arrive on the voltage subscription with a grant at t: any id list,
\* taken at t or the tick before
VDeliveries(t) ==
    { None } \cup { Some(Measured(ids, tm)) :
                      ids \in IdLists(Range(CanonIds) \cup { ForeignId }), tm \in { t - 1, t } }
PQIdLists == { << CanonIds[1] >>, << ForeignId >> }
PQDeliveries(t) == { None } \cup { Some(Measured(ids, t)) : ids \in PQIdLists }

\* the subscription after the substrate delivered d (or nothing) with a grant
Deliver(sub, d) ==
    IF d.some THEN [ has |-> TRUE, updated |-> TRUE, sn |-> sub.sn + 1, val |-> d.v ]
    ELSE sub

\* input.is_updated()
is_updated_always(sub) == TRUE
is_updated(sub) == sub.updated

\* reading input.json hands out the payload and clears the freshness flag
ReadInputKeep(sub) == sub
ReadInput(sub) == [ sub EXCEPT !.updated = FALSE ]

\* the vectors least_squares may return: one per way of filling 2N entries
SolverOutputs ==
    { [ i \in 1..(2 * NumNodes) |-> i ],
      [ i \in 1..(2 * NumNodes) |-> 2 * NumNodes + 1 - i ] }

----------------------------------------------------------------------------
(* StateEstimatorFederate *)

\* a solve that ends without meeting its tolerances treated as a failure
unconverged_raises(success) == ~success
\* result = res_1.x: res_1.success and res_1.status are never read
solve_raises(success) == FALSE

NoResult == [ mag |-> << >>, ang |-> << >>, ang_ndim |-> 0, time |-> 0 ]
NoCall == [ sn |-> 0, vtime |-> 0, ptime |-> 0, qtime |-> 0, requests |-> 0, initial_ang |-> [ kind |-> "unset" ],
            initial_V |-> [ kind |-> "unset" ], slack_index |-> None, res_x |-> << >>,
            success |-> TRUE,
            ret |-> Failed("", FALSE) ]

EstInit ==
    /\ est_pc = "created"
    /\ est_granted = 0
    /\ est_initial_ang = [ kind |-> "unset" ]
    /\ est_initial_V = [ kind |-> "unset" ]
    /\ est_params \in [ units : UnitValues, base_power : { Some(100) } ]
    /\ est_topology \in Topologies
    /\ est_sub_V = NoInput
    /\ est_sub_P = NoInput
    /\ est_sub_Q = NoInput
    /\ est_result = NoResult
    /\ est_pub_mag = [ n |-> 0, last |-> NoArray, requests |-> 0 ]
    /\ est_pub_angle = [ n |-> 0, last |-> NoArray, requests |-> 0 ]
    /\ est_vfed = [ disconnects |-> 0, frees |-> 0 ]
    /\ est_hist = [ requests |-> 0, calls |-> 0, solves |-> 0, consumed |-> {},
                    reread |-> FALSE, call |-> NoCall, error |-> "" ]

\* run(): enter_executing_mode, then the first helicsFederateRequestTime
EstRun ==
    /\ running = "estimator"
    /\ est_pc = "created"
    /\ est_pc' = "first_request"
    /\ est_hist' = [ est_hist EXCEPT !.requests = @ + 1 ]
    /\ UNCHANGED << other_than_est, est_granted, est_initial_ang, est_initial_V, est_params,
                    est_topology, est_sub_V, est_sub_P, est_sub_Q, est_result,
                    est_pub_mag, est_pub_angle, est_vfed >>

\* the substrate grants the pending request: a time, and with it the new payloads
EstGranted(t, dV, dP, dQ) ==
    /\ est_granted' = t
    /\ est_sub_V' = Deliver(est_sub_V, dV)
    /\ est_sub_P' = Deliver(est_sub_P, dP)
    /\ est_sub_Q' = Deliver(est_sub_Q, dQ)
    /\ est_pc' = "loop_head"
    /\ UNCHANGED << other_than_est, est_params, est_topology, est_result, est_pub_mag,
                    est_pub_angle, est_vfed, est_hist >>

\* the times the substrate may grant next: a later tick, or the sentinel
NextGrants(granted) == ((granted + 1)..MaxTick) \cup { HELICS_TIME_MAXTIME }

\* the first request returns; run() then sets initial_ang = initial_V = None.
\* The topology published before the producer's first request is there.
EstFirstGrant ==
    /\ running = "estimator"
    /\ est_pc = "first_request"
    /\ \E t \in NextGrants(est_granted) :
         \E dV \in (IF t < HELICS_TIME_MAXTIME THEN VDeliveries(t) ELSE { None }),
            dP, dQ \in (IF t < HELICS_TIME_MAXTIME THEN PQDeliveries(t) ELSE { None }) :
            EstGranted(t, dV, dP, dQ)
    /\ est_initial_ang' = [ kind |-> "None" ]
    /\ est_initial_V' = [ kind |-> "None" ]

\* a later request returns: a tick is granted because some input was updated
EstGrant ==
    /\ running = "estimator"
    /\ est_pc = "requesting"
    /\ \E t \in NextGrants(est_granted) :
         \E dV \in (IF t < HELICS_TIME_MAXTIME THEN VDeliveries(t) ELSE { None }),
            dP, dQ \in (IF t < HELICS_TIME_MAXTIME THEN PQDeliveries(t) ELSE { None }) :
            /\ t < HELICS_TIME_MAXTIME => dV.some \/ dP.some \/ dQ.some
            /\ EstGranted(t, dV, dP, dQ)
    /\ UNCHANGED << est_initial_ang, est_initial_V >>

\* the loop's for/if over topology.admittance.ids: the last i whose id is slack_bus[0]
\* a search that compares each id with the whole slack_bus list
SlackIndexWhole(topology) ==
    LET ids == topology.admittance.ids
        hits == { i \in 0..(Len(ids) - 1) : << At(ids, i) >> = topology.slack_bus }
    IN  IF hits = {} THEN None
        ELSE Some(CHOOSE i \in hits : \A j \in hits : j <= i)
SlackIndex(topology) ==
    LET ids == topology.admittance.ids
        hits == { i \in 0..(Len(ids) - 1) : At(ids, i) = topology.slack_bus[1] }
    IN  IF hits = {} THEN None
        ELSE Some(CHOOSE i \in hits : \A j \in hits : j <= i)

\* the mean of the voltages as they come, in volts
FlatStartVRaw(topology, voltages, knownV) ==
    RatMean([ k \in DOMAIN voltages.values |-> Rat(voltages.values[k], 1) ])
\* np.mean(np.array(voltages.values) / base_voltage_magnitudes.values[knownV])
FlatStartV(topology, voltages, knownV) ==
    RatMean([ k \in DOMAIN voltages.values |->
                Rat(voltages.values[k],
                    At(topology.base_voltage_magnitudes.values, knownV[k])) ])

\* the time field of both publications: time = voltages.time
PublishedTimeGrant(voltages, granted_time) == granted_time
PublishedTime(voltages, granted_time) == voltages.time

\* what run() keeps in (initial_ang, initial_V) once state_estimator has returned:
\* the two assignments from the result are commented out
CarryWarm(carried, returned) == [ kind |-> "ndarray", val |-> returned ]
Carry(carried, returned) == carried

\* StateEstimatorFederate.destroy: helicsFederateDisconnect, helicsFederateFree
destroy(vfed) == [ disconnects |-> vfed.disconnects + 1, frees |-> vfed.frees + 1 ]

\* while granted_time < h.HELICS_TIME_MAXTIME (StateEstimatorFederate.run)
est_while_inclusive(granted_time) == granted_time <= HELICS_TIME_MAXTIME
est_while(granted_time) == granted_time < HELICS_TIME_MAXTIME

\* loop head, the voltage input is not updated: request time again and continue
EstStale ==
    /\ running = "estimator"
    /\ est_pc = "loop_head"
    /\ est_while(est_granted)
    /\ ~is_updated(est_sub_V)
    /\ est_pc' = "requesting"
    /\ est_hist' = [ est_hist EXCEPT !.requests = @ + 1 ]
    /\ UNCHANGED << other_than_est, est_granted, est_initial_ang, est_initial_V, est_params,
                    est_topology, est_sub_V, est_sub_P, est_sub_Q, est_result,
                    est_pub_mag, est_pub_angle, est_vfed >>

\* loop head, fresh voltage input: lines 264-294, up to the return of
\* state_estimator or the first exception
EstProcess ==
    /\ running = "estimator"
    /\ est_pc = "loop_head"
    /\ est_while(est_granted)
    /\ is_updated(est_sub_V)
    /\ \E res_x \in SolverOutputs, success \in BOOLEAN :
        LET topology == est_topology
            isMatrix == topology.admittance.kind = "AdmittanceMatrix"
            hasSlack == Len(topology.slack_bus) > 0
            slack_index == SlackIndex(topology)
            voltages == est_sub_V.val
            knownV == get_indices(topology.admittance.ids, voltages.ids)
            decodedV == isMatrix /\ hasSlack /\ est_sub_V.has
            indexedV == decodedV /\ knownV.raised = ""
            initial_V == IF indexedV /\ est_initial_V.kind = "None"
                         THEN [ kind |-> "scalar",
                                val |-> FlatStartV(topology, voltages, knownV.idx) ]
                         ELSE est_initial_V
            initial_ang == IF indexedV /\ est_initial_ang.kind = "None"
                           THEN [ kind |-> "ndarray", val |-> topology.base_voltage_angles.values ]
                           ELSE est_initial_ang
            called == indexedV /\ est_sub_P.has /\ est_sub_Q.has
            returned == state_estimator(est_params, topology, est_sub_P.val, est_sub_Q.val,
                                        voltages, initial_ang, initial_V, slack_index, res_x)
            ret == IF returned.solved /\ solve_raises(success)
                   THEN Failed("SolverNonconvergence", TRUE)
                   ELSE returned
            error == IF ~isMatrix THEN "TypeError"
                     ELSE IF ~hasSlack THEN "IndexError"
                     ELSE IF ~est_sub_V.has THEN "ValidationError"
                     ELSE IF knownV.raised # "" THEN knownV.raised
                     ELSE IF ~called THEN "ValidationError"
                     ELSE ret.raised
        IN  /\ est_sub_V' = IF isMatrix /\ hasSlack THEN ReadInput(est_sub_V) ELSE est_sub_V
            /\ est_sub_P' = IF indexedV THEN ReadInput(est_sub_P) ELSE est_sub_P
            /\ est_sub_Q' = IF indexedV /\ est_sub_P.has THEN ReadInput(est_sub_Q) ELSE est_sub_Q
            /\ est_initial_V' = IF error = "" THEN Carry(initial_V, ret.mag) ELSE initial_V
            /\ est_initial_ang' = IF error = "" THEN Carry(initial_ang, ret.ang) ELSE initial_ang
            /\ est_result' = IF error = ""
                             THEN [ mag |-> ret.mag, ang |-> ret.ang, ang_ndim |-> ret.ang_ndim,
                                    time |-> PublishedTime(voltages, est_granted) ]
                             ELSE est_result
            /\ est_pc' = IF error = "" THEN "publish_mag" ELSE "raised"
            /\ est_hist' = [ est_hist EXCEPT
                   !.calls = IF called THEN @ + 1 ELSE @,
                   !.solves = IF called /\ ret.solved THEN @ + 1 ELSE @,
                   !.consumed = IF decodedV THEN @ \cup { est_sub_V.sn } ELSE @,
                   !.reread = @ \/ (decodedV /\ est_sub_V.sn \in est_hist.consumed),
                   !.call = IF called
                            THEN [ sn |-> est_sub_V.sn, vtime |-> voltages.time,
                                   ptime |-> est_sub_P.val.time,
                                   qtime |-> est_sub_Q.val.time,
                                   requests |-> est_hist.requests,
                                   initial_ang |-> initial_ang, initial_V |-> initial_V,
                                   slack_index |-> slack_index,
                                   res_x |-> IF ret.solved THEN res_x ELSE << >>,
                                   success |-> ret.solved => success,
                                   ret |-> ret ]
                            ELSE @,
                   !.error = error ]
    /\ UNCHANGED << other_than_est, est_granted, est_params, est_topology, est_pub_mag,
                    est_pub_angle, est_vfed >>

\* self.pub_voltage_mag.publish(VoltagesMagnitude(values, ids, time))
EstPublishMag ==
    /\ running = "estimator"
    /\ est_pc = "publish_mag"
    /\ est_pub_mag' = [ n |-> est_pub_mag.n + 1,
                        last |-> MeasurementArray(est_result.mag, est_topology.admittance.ids,
                                                  ClassUnits, None, None, None, est_result.time),
                        requests |-> est_hist.requests ]
    /\ est_pc' = "publish_angle"
    /\ UNCHANGED << other_than_est, est_granted, est_initial_ang, est_initial_V, est_params,
                    est_topology, est_sub_V, est_sub_P, est_sub_Q, est_result,
                    est_pub_angle, est_vfed, est_hist >>

\* self.pub_voltage_angle.publish(VoltagesAngle(values, ids, time)); a result with
\* an extra axis is no list of floats and fails validation.  Then back to the while.
EstPublishAngle ==
    /\ running = "estimator"
    /\ est_pc = "publish_angle"
    /\ IF est_result.ang_ndim = 1
       THEN /\ est_pub_angle' = [ n |-> est_pub_angle.n + 1,
                                  last |-> MeasurementArray(est_result.ang,
                                             est_topology.admittance.ids, ClassUnits,
                                             None, None, None, est_result.time),
                                  requests |-> est_hist.requests ]
            /\ est_pc' = "loop_head"
            /\ UNCHANGED est_hist
       ELSE /\ est_pc' = "raised"
            /\ est_hist' = [ est_hist EXCEPT !.error = "ValidationError" ]
            /\ UNCHANGED est_pub_angle
    /\ UNCHANGED << other_than_est, est_granted, est_initial_ang, est_initial_V, est_params,
                    est_topology, est_sub_V, est_sub_P, est_sub_Q, est_result,
                    est_pub_mag, est_vfed >>

\* the while test fails on the sentinel: self.destroy()
EstExit ==
    /\ running = "estimator"
    /\ est_pc = "loop_head"
    /\ ~est_while(est_granted)
    /\ est_vfed' = destroy(est_vfed)
    /\ est_pc' = "terminated"
    /\ UNCHANGED << other_than_est, est_granted, est_initial_ang, est_initial_V, est_params,
                    est_topology, est_sub_V, est_sub_P, est_sub_Q, est_result,
                    est_pub_mag, est_pub_angle, est_hist >>

EstNext ==
    \/ EstRun
    \/ EstFirstGrant
    \/ EstGrant
    \/ EstStale
    \/ EstProcess
    \/ EstPublishMag
    \/ EstPublishAngle
    \/ EstExit

----------------------------------------------------------------------------
(* measuring_federate/measuring_federate.py *)

ReindexFailed(why) == [ raised |-> why, arr |-> NoArray ]

\* reindex(measurement_array, indices): a new array with five fields given
reindex(measurement_array, indices) ==
    LET ids == measurement_array.ids
    IN  IF \E k \in DOMAIN indices : indices[k] \notin Range(ids)
        THEN ReindexFailed("KeyError")
        ELSE IF \E k \in DOMAIN indices :
                   InvMap(ids, indices[k]) >= Len(measurement_array.values)
        THEN ReindexFailed("IndexError")
        ELSE [ raised |-> "",
               arr |-> MeasurementArray(
                         [ k \in DOMAIN indices |->
                             At(measurement_array.values, InvMap(ids, indices[k])) ],
                         indices,
                         measurement_array.units,
                         measurement_array.equipment_type,
                         None, None,
                         measurement_array.time) ]

\* apply(f, measurement_array) for the f of transform: f adds the next draw of the
\* generator to its argument; draws[k] is the draw made at the k-th call of f
apply(draws, measurement_array) ==
    MeasurementArray(
        [ k \in DOMAIN measurement_array.values |-> measurement_array.values[k] + draws[k] ],
        measurement_array.ids,
        measurement_array.units,
        measurement_array.equipment_type,
        None, None,
        measurement_array.time)

\* the i-th draw (i = 1, 2, ...) of rng.normal(scale) from default_rng(12345): a
\* fixed stream
Normal(i) == ((7 * i) % 5) - 2

\* np.random.default_rng(12345): the generator as constructed, no draw made
default_rng == 0

\* the generator after n more calls of rng.normal; a generator constructed anew
\* for every tick would be back at its start
AdvanceReseeded(rng, n) == default_rng
Advance(rng, n) == rng + n

\* MeasurementRelay.transform with the generator at position rng (draws made so far)
transform(rng, measurement_array, unique_ids) ==
    LET new_array == reindex(measurement_array, unique_ids)
    IN  IF new_array.raised # "" THEN new_array
        ELSE [ raised |-> "",
               arr |-> apply([ k \in DOMAIN new_array.arr.values |-> Normal(rng + k) ],
                             new_array.arr) ]

EquipmentOf(id) == IF IdNum(id) % 2 = 1 THEN "Load" ELSE "PVSystem"

\* what an upstream publication may hold at time t: readings of some canonical
\* nodes, with or without the optional parallel fields
RelayInputs(t) ==
    { MeasurementArray([ k \in DOMAIN ids |-> Reading(ids[k], t) ], ids, "kW",
                       IF meta = "none" THEN None
                       ELSE Some([ k \in DOMAIN ids |-> EquipmentOf(ids[k]) ]),
                       IF meta = "all" THEN Some([ k \in DOMAIN ids |-> IdNum(ids[k]) ])
                       ELSE None,
                       IF meta = "all" THEN Some([ k \in DOMAIN ids |-> 3 * IdNum(ids[k]) ])
                       ELSE None,
                       t) :
        ids \in IdLists(Range(CanonIds)), meta \in { "none", "equipment", "all" } }

\* what the measurement file may hold when a tick opens it
TargetLists == IdLists(Range(CanonIds) \cup { ForeignId })

----------------------------------------------------------------------------
(* MeasurementRelay *)

RelayInit ==
    /\ relay_pc = "created"
    /\ relay_granted = 0
    /\ relay_sub = NoInput
    /\ relay_rng = default_rng
    /\ relay_measurement = << >>
    /\ relay_pub = [ n |-> 0, last |-> NoArray ]
    /\ relay_vfed = [ disconnects |-> 0, frees |-> 0 ]
    /\ relay_hist = [ input |-> NoArray, rng |-> 0, ticks |-> 0, error |-> "",
                      drawn |-> 0, prev |-> [ file |-> << >>, ids |-> << >>, noise |-> << >> ],
                      file |-> << >>, noise |-> << >> ]
    /\ relay_twin = [ rng |-> default_rng, last |-> NoArray ]

\* while granted_time < h.HELICS_TIME_MAXTIME (MeasurementRelay.run)
relay_while(granted_time) == granted_time < HELICS_TIME_MAXTIME

\* MeasurementRelay.destroy
relay_destroy(vfed) == [ disconnects |-> vfed.disconnects + 1, frees |-> vfed.frees + 1 ]

\* run(): enter_executing_mode, then the first helicsFederateRequestTime
RelayRun ==
    /\ running = "relay"
    /\ relay_pc = "created"
    /\ relay_pc' = "requesting"
    /\ UNCHANGED << other_than_relay, relay_granted, relay_sub, relay_rng,
                    relay_measurement, relay_pub, relay_vfed, relay_hist, relay_twin >>

\* the substrate grants the request: a tick with a new payload, or the sentinel
RelayGrant ==
    /\ running = "relay"
    /\ relay_pc = "requesting"
    /\ \E t \in NextGrants(relay_granted) :
         /\ relay_granted' = t
         /\ IF t < HELICS_TIME_MAXTIME
            THEN \E a \in RelayInputs(t) : relay_sub' = Deliver(relay_sub, Some(a))
            ELSE relay_sub' = relay_sub
    /\ relay_pc' = "loop_head"
    /\ UNCHANGED << other_than_relay, relay_rng, relay_measurement, relay_pub,
                    relay_vfed, relay_hist, relay_twin >>

\* one pass of the while body: read the input, load the id list from the file,
\* transform, publish, request time
RelayTick ==
    /\ running = "relay"
    /\ relay_pc = "loop_head"
    /\ relay_while(relay_granted)
    /\ \E file \in TargetLists :
        LET measurement == relay_sub.val
            measurement_transformed == transform(relay_rng, measurement, file)
            ok == measurement_transformed.raised = ""
            twin_transformed == transform(relay_twin.rng, measurement, file)
            noise == [ k \in DOMAIN file |->
                         measurement_transformed.arr.values[k]
                         - At(measurement.values, InvMap(measurement.ids, file[k])) ]
        IN  /\ relay_sub' = ReadInput(relay_sub)
            /\ relay_measurement' = file
            /\ relay_rng' = IF ok THEN Advance(relay_rng, Len(file)) ELSE relay_rng
            /\ relay_twin' = IF ok THEN [ rng |-> Advance(relay_twin.rng, Len(file)),
                                          last |-> twin_transformed.arr ]
                             ELSE relay_twin
            /\ relay_pub' = IF ok THEN [ n |-> relay_pub.n + 1,
                                         last |-> measurement_transformed.arr ]
                            ELSE relay_pub
            /\ relay_pc' = IF ok THEN "requesting" ELSE "raised"
            /\ relay_hist' = [ input |-> measurement, rng |-> relay_rng,
                               ticks |-> relay_hist.ticks + 1,
                               error |-> measurement_transformed.raised,
                               drawn |-> IF ok THEN relay_hist.drawn + Len(file)
                                         ELSE relay_hist.drawn,
                               prev |-> [ file |-> relay_hist.file,
                                          ids |-> relay_hist.input.ids,
                                          noise |-> relay_hist.noise ],
                               file |-> file,
                               noise |-> IF ok THEN noise ELSE << >> ]
    /\ UNCHANGED << other_than_relay, relay_granted, relay_vfed >>

\* the while test fails on the sentinel: self.destroy()
RelayExit ==
    /\ running = "relay"
    /\ relay_pc = "loop_head"
    /\ ~relay_while(relay_granted)
    /\ relay_vfed' = relay_destroy(relay_vfed)
    /\ relay_pc' = "terminated"
    /\ UNCHANGED << other_than_relay, relay_granted, relay_sub, relay_rng,
                    relay_measurement, relay_pub, relay_hist, relay_twin >>

RelayNext ==
    \/ RelayRun
    \/ RelayGrant
    \/ RelayTick
    \/ RelayExit

----------------------------------------------------------------------------
(* LocalFeeder/sender_cosim.py *)

\* complex numbers <<re, im>>
CAdd(a, b) == << a[1] + b[1], a[2] + b[2] >>
CNeg(a) == << -a[1], -a[2] >>
\* a comparison that also reports an error of exactly tol
AbsGreaterEq(a, tol) == a[1] * a[1] + a[2] * a[2] >= tol * tol
\* |a| > tol for tol >= 0, without the square root
AbsGreater(a, tol) == a[1] * a[1] + a[2] * a[2] > tol * tol

\* the default of where_power_unbalanced's tol
DefaultTol == 1

\* where_power_unbalanced: the ids where |PQ + calculated| > tol, in node order
where_power_unbalanced(PQ_injections_all, calculated_power, tol) ==
    LET errors == [ i \in DOMAIN PQ_injections_all |->
                      CAdd(PQ_injections_all[i], calculated_power[i]) ]
        at(i) == IF AbsGreater(errors[i], tol) THEN << CanonIds[i] >> ELSE << >>
        F[i \in 0..Len(errors)] == IF i = 0 THEN << >> ELSE F[i - 1] \o at(i)
    IN  F[Len(errors)]

\* sim._source_indexes: the source (slack) nodes of the feeder
SourceIndexes == { 0 }

\* get_current_data: the aggregated injections, with the entries of the source
\* nodes overwritten by minus the calculated power
PQ_injections_all(aggregated, calculated_power) ==
    [ i \in DOMAIN aggregated |->
        IF (i - 1) \in SourceIndexes THEN CNeg(calculated_power[i]) ELSE aggregated[i] ]

\* powers the simulator may report for a node (kVA)
PowerValues == { << 0, 0 >>, << 1, 0 >>, << 1, 1 >>, << -1, -1 >> }

Channels == { "topology", "voltages_magnitude", "voltages_real", "voltages_imag",
              "powers_real", "powers_imag", "injections" }
\* a producer that sends the topology with every tick's measurements
TickChannelsAll == Channels
\* the publications inside the for loop
TickChannels == Channels \ { "topology" }

\* config.number_of_timesteps
NumberOfTimesteps == MaxTick

\* the text of the ValueError: the bad buses, PQ_injections_all.loc[bad_bus_names]
\* and calculated_power.loc[bad_bus_names]
NoMessage == [ bad |-> << >>, PQ |-> << >>, calc |-> << >> ]
BadBusMessage(bad_bus_names, PQ, calculated_power) ==
    [ bad |-> bad_bus_names,
      PQ |-> [ k \in DOMAIN bad_bus_names |-> PQ[IdNum(bad_bus_names[k])] ],
      calc |-> [ k \in DOMAIN bad_bus_names |-> calculated_power[IdNum(bad_bus_names[k])] ] ]

\* a check whose result is logged and not raised
bad_buses_ignored(bad_bus_names) == FALSE
\* if len(bad_bus_names) > 0: raise ValueError(...)
bad_buses_raise(bad_bus_names) == Len(bad_bus_names) > 0

ProdInit ==
    /\ prod_pc = "created"
    /\ prod_request = 0
    /\ prod_granted = -1
    /\ prod_pub = [ c \in Channels |-> [ n |-> 0, time |-> -1 ] ]
    /\ prod_vfed = [ disconnects |-> 0, frees |-> 0 ]
    /\ prod_hist = [ solves |-> 0, bad |-> << >>, error |-> "", PQ |-> << >>,
                     calc |-> << >>, message |-> NoMessage, aggregated |-> << >> ]

\* go_cosim up to the for loop: enter executing mode, publish the topology
ProdStart ==
    /\ running = "producer"
    /\ prod_pc = "created"
    /\ prod_pub' = [ prod_pub EXCEPT !["topology"] = [ n |-> @.n + 1, time |-> 0 ] ]
    /\ prod_granted' = -1
    /\ prod_pc' = "for_head"
    /\ UNCHANGED << other_than_prod, prod_request, prod_vfed, prod_hist >>

\* for request_time in range(0, number_of_timesteps): helicsFederateRequestTime
ProdRequest ==
    /\ running = "producer"
    /\ prod_pc = "for_head"
    /\ prod_request < NumberOfTimesteps
    /\ prod_pc' = "requesting"
    /\ UNCHANGED << other_than_prod, prod_request, prod_granted, prod_pub, prod_vfed,
                    prod_hist >>

\* the substrate grants the requested time
ProdGrant ==
    /\ running = "producer"
    /\ prod_pc = "requesting"
    /\ prod_granted' = prod_request
    /\ prod_pc' = "granted"
    /\ UNCHANGED << other_than_prod, prod_request, prod_pub, prod_vfed, prod_hist >>

\* sim.solve, get_current_data, where_power_unbalanced; ValueError on bad buses
ProdSolve ==
    /\ running = "producer"
    /\ prod_pc = "granted"
    /\ \E aggregated, calculated_power \in [ 1..NumNodes -> PowerValues ] :
        LET PQ == PQ_injections_all(aggregated, calculated_power)
            bad_bus_names == where_power_unbalanced(PQ, calculated_power, DefaultTol)
            raised == bad_buses_raise(bad_bus_names)
        IN  /\ prod_hist' = [ solves |-> prod_hist.solves + 1, bad |-> bad_bus_names,
                              error |-> IF raised THEN "ValueError" ELSE "",
                              PQ |-> PQ, calc |-> calculated_power,
                              aggregated |-> aggregated,
                              message |-> IF raised
                                          THEN BadBusMessage(bad_bus_names, PQ,
                                                             calculated_power)
                                          ELSE NoMessage ]
            /\ prod_pc' = IF raised THEN "raised" ELSE "publishing"
    /\ UNCHANGED << other_than_prod, prod_request, prod_granted, prod_pub, prod_vfed >>

\* the six publications of the tick, then the next turn of the for loop
ProdPublish ==
    /\ running = "producer"
    /\ prod_pc = "publishing"
    /\ prod_pub' = [ c \in Channels |->
                       IF c \in TickChannels
                       THEN [ n |-> prod_pub[c].n + 1, time |-> prod_granted ]
                       ELSE prod_pub[c] ]
    /\ prod_request' = prod_request + 1
    /\ prod_pc' = "for_head"
    /\ UNCHANGED << other_than_prod, prod_granted, prod_vfed, prod_hist >>

\* the range is exhausted: helicsFederateDisconnect, helicsFederateFree
ProdFinish ==
    /\ running = "producer"
    /\ prod_pc = "for_head"
    /\ ~(prod_request < NumberOfTimesteps)
    /\ prod_vfed' = [ disconnects |-> prod_vfed.disconnects + 1,
                      frees |-> prod_vfed.frees + 1 ]
    /\ prod_pc' = "terminated"
    /\ UNCHANGED << other_than_prod, prod_request, prod_granted, prod_pub, prod_hist >>

ProdNext ==
    \/ ProdStart
    \/ ProdRequest
    \/ ProdGrant
    \/ ProdSolve
    \/ ProdPublish
    \/ ProdFinish

----------------------------------------------------------------------------
(* Pure functions on drawn inputs *)

\* the reorderings of the id list s
Reorderings(s) ==
    { t \in [ DOMAIN s -> Range(s) ] : IsInjective(t) }

NoReindex == ReindexFailed("")

FnNoOut == [ first |-> NoReindex, second |-> NoReindex,
             indices |-> [ raised |-> "", idx |-> << >> ],
             obs |-> NoObserved, res |-> << >>,
             si |-> Failed("", FALSE), pu |-> Failed("", FALSE), bad |-> << >>,
             permute |-> [ raised |-> "", idx |-> << >> ],
             X0 |-> << >>, h |-> << >>, H |-> << >>, agg |-> << >> ]

\* agg_to_ids(x, ids): zeros when x is empty; otherwise x grouped by id and
\* summed, aligned to ids with join="left" and fill_value=0.0: one entry per
\* id of ids, groups whose id is not in ids dropped
agg_to_ids(x, ids) ==
    LET group(id) == LET member(e) == e.id = id
                         es == SelectSeq(x, member)
                     IN  SumSeq([ k \in DOMAIN es |-> es[k].value ])
    IN  IF Len(x) = 0 THEN [ i \in DOMAIN ids |-> 0 ]
        ELSE [ i \in DOMAIN ids |-> group(ids[i]) ]

\* contributor arrays: per-equipment entries, each on a node id
Contributors ==
    UNION { [ 1..n -> [ id : Range(CanonIds) \cup { ForeignId }, value : 1..2 ] ] :
            n \in 0..MaxMeas }
AggInputs == [ x : Contributors, ids : { CanonIds } ]

\* the lookup taken the other way round: the position in from_list of each
\* element of to_list
permutation_inverse(from_list, to_list) ==
    IF \E k \in DOMAIN to_list : to_list[k] \notin Range(from_list)
    THEN [ raised |-> "KeyError", idx |-> << >> ]
    ELSE [ raised |-> "", idx |-> [ k \in DOMAIN to_list |-> InvMap(from_list, to_list[k]) ] ]
\* index_map = {v: i for i, v in enumerate(to_list)}
\* return [index_map[v] for v in from_list]
permutation(from_list, to_list) ==
    IF \E k \in DOMAIN from_list : from_list[k] \notin Range(to_list)
    THEN [ raised |-> "KeyError", idx |-> << >> ]
    ELSE [ raised |-> "", idx |-> [ k \in DOMAIN from_list |-> InvMap(to_list, from_list[k]) ] ]

\* node orders handed to permutation: the solver's order and _AllNodeNames
PermLists ==
    { l \in UNION { [1..n -> Range(CanonIds) \cup { ForeignId }] : n \in 1..(MaxMeas + 1) } :
        IsInjective(l) }
PermInputs == [ from_list : PermLists, to_list : PermLists ]

\* admittance matrices of a two-node feeder: [[y, -y], [-y, y]]
YMatrices ==
    { << << << 1, 0 >>, << -1, 0 >> >>, << << -1, 0 >>, << 1, 0 >> >> >>,
      << << << 1, -2 >>, << -1, 2 >> >>, << << -1, 2 >>, << 1, -2 >> >> >> }

\* the base voltage magnitude of a node
Vbase(id) == 2 * IdNum(id)

\* a topology with its admittance matrix, whose base voltage magnitudes are
\* listed in the order base_ids
TopologyWith(base_ids, Y) ==
    [ Topology("AdmittanceMatrix", [ i \in 1..NumNodes |-> i - 1 ], << CanonIds[1] >>)
        EXCEPT !.admittance = [ kind |-> "AdmittanceMatrix", ids |-> CanonIds,
                                admittance_matrix |-> Y ],
               !.base_voltage_magnitudes =
                   [ values |-> [ k \in DOMAIN base_ids |-> Vbase(base_ids[k]) ],
                     ids |-> base_ids ] ]

\* arguments of state_estimator: parameters, a topology, partial P, Q, V
EstimatorInputs ==
    [ parameters : [ units : UnitSystem, base_power : { None, Some(50) } ],
      topology : { TopologyWith(b, Y) : b \in Reorderings(CanonIds), Y \in YMatrices },
      V : { Measured(ids, 1) : ids \in IdLists(Range(CanonIds)) },
      P : { Measured(<< CanonIds[1] >>, 1), Measured(<< CanonIds[2], CanonIds[1] >>, 1) },
      Q : { Measured(<< CanonIds[2] >>, 1) } ]

\* states of the feeder: angles in quarter turns, magnitudes in volts
TrueStates == [ delta : { << 0, 0 >>, << 0, 1 >> }, Vabs : { << 2, 4 >>, << 4, 4 >> } ]

\* Vp = Vabs * exp(1j * delta)
Phasors(x) == [ i \in DOMAIN x.Vabs |-> CRScale(ExpI(x.delta[i]), Rat(x.Vabs[i], 1)) ]

\* the injected power of spec section 4.3: S = Vp * conj(Y @ conj(Vp))
InjectedPower(Y, x) ==
    LET Vp == Phasors(x)
        Yc == matrix_to_numpy(Y)
    IN  [ i \in DOMAIN Vp |->
            CRMul(Vp[i], CRConj(CRSum([ j \in DOMAIN Vp |->
                                          CRMul(Yc[i][j], CRConj(Vp[j])) ]))) ]

\* fully observed measurements of a true state x: V its magnitudes, P and Q the
\* real and imaginary parts of its injected power, at every node
ExactInputs ==
    { [ parameters |-> [ units |-> u, base_power |-> None ],
        topology |-> TopologyWith(CanonIds, Y),
        x |-> x,
        V |-> MeasurementArray(x.Vabs, CanonIds, ClassUnits, None, None, None, 1),
        P |-> MeasurementArray([ i \in 1..NumNodes |-> InjectedPower(Y, x)[i][1][1] ],
                               CanonIds, ClassUnits, None, None, None, 1),
        Q |-> MeasurementArray([ i \in 1..NumNodes |-> InjectedPower(Y, x)[i][2][1] ],
                               CanonIds, ClassUnits, None, None, None, 1) ] :
      u \in UnitSystem, Y \in YMatrices, x \in TrueStates }

\* arguments of where_power_unbalanced
BalanceInputs ==
    [ PQ : [ 1..NumNodes -> PowerValues ], calc : [ 1..NumNodes -> PowerValues ],
      tol : 0..2 ]

FnInit ==
    /\ fn_out = FnNoOut
    /\ \/ fn_pc = "input" /\ fn_in \in [ A : RelayInputs(1), L : TargetLists ]
       \/ fn_pc = "estimator_input" /\ fn_in \in EstimatorInputs
       \/ fn_pc = "exact_input" /\ fn_in \in ExactInputs
       \/ fn_pc = "balance_input" /\ fn_in \in BalanceInputs
       \/ fn_pc = "permutation_input" /\ fn_in \in PermInputs
       \/ fn_pc = "agg_input" /\ fn_in \in AggInputs

FnIdle ==
    /\ fn_pc = "idle"
    /\ fn_in = [ A |-> NoArray, L |-> << >> ]
    /\ fn_out = FnNoOut

\* reindex(A, L)
FnReindex ==
    /\ running = "fn"
    /\ fn_pc = "input"
    /\ fn_out' = [ fn_out EXCEPT !.first = reindex(fn_in.A, fn_in.L) ]
    /\ fn_pc' = "reindexed"
    /\ UNCHANGED << other_than_fn, fn_in >>

\* reindex(reindex(A, L), A.ids)
FnReindexBack ==
    /\ running = "fn"
    /\ fn_pc = "reindexed"
    /\ fn_out.first.raised = ""
    /\ fn_out' = [ fn_out EXCEPT !.second = reindex(fn_out.first.arr, fn_in.A.ids) ]
    /\ fn_pc' = "returned"
    /\ UNCHANGED << other_than_fn, fn_in >>

\* get_indices(topology, measurement) with measurement.ids = L
FnGetIndices ==
    /\ running = "fn"
    /\ fn_pc = "input"
    /\ fn_out' = [ fn_out EXCEPT !.indices = get_indices(CanonIds, fn_in.L) ]
    /\ fn_pc' = "indexed"
    /\ UNCHANGED << other_than_fn, fn_in >>

\* the z and Y of state_estimator(parameters, topology, P, Q, V)
FnObserved ==
    /\ running = "fn"
    /\ fn_pc = "estimator_input"
    /\ fn_out' = [ fn_out EXCEPT !.obs = observed(fn_in.parameters, fn_in.topology,
                                                  fn_in.P, fn_in.Q, fn_in.V) ]
    /\ fn_pc' = "observed"
    /\ UNCHANGED << other_than_fn, fn_in >>

\* state_estimator on the same topology, P, Q, V and slack index in both unit
\* systems, from physically equal guesses; the solver of the SI call returns the
\* state the solver of the PER_UNIT call returns, in volts
FnBothUnits ==
    /\ running = "fn"
    /\ fn_pc = "estimator_input"
    /\ \E res_x \in SolverOutputs :
        LET topology == fn_in.topology
            n == Len(topology.admittance.ids)
            base == [ i \in 1..n |->
                        At(topology.base_voltage_magnitudes.values, i - 1) ]
            ang == [ kind |-> "ndarray", val |-> topology.base_voltage_angles.values ]
            res_SI == [ i \in 1..(2 * n) |->
                          IF i <= n THEN res_x[i] ELSE res_x[i] * base[i - n] ]
        IN  fn_out' = [ fn_out EXCEPT
              !.pu = state_estimator([ fn_in.parameters EXCEPT !.units = "PER_UNIT" ],
                                     topology, fn_in.P, fn_in.Q, fn_in.V, ang,
                                     [ kind |-> "ndarray", val |-> Full(n, 1) ],
                                     SlackIndex(topology), res_x),
              !.si = state_estimator([ fn_in.parameters EXCEPT !.units = "SI" ],
                                     topology, fn_in.P, fn_in.Q, fn_in.V, ang,
                                     [ kind |-> "ndarray", val |-> base ],
                                     SlackIndex(topology), res_SI) ]
    /\ fn_pc' = "estimated"
    /\ UNCHANGED << other_than_fn, fn_in >>

\* residual(x_true, z, ...) with the z and Y of state_estimator
FnResidual ==
    /\ running = "fn"
    /\ fn_pc = "exact_input"
    /\ LET o == observed(fn_in.parameters, fn_in.topology, fn_in.P, fn_in.Q, fn_in.V)
           n == Len(fn_in.topology.admittance.ids)
           base == fn_in.topology.base_voltage_magnitudes.values
           VabsK == [ i \in 1..n |->
                        IF fn_in.parameters.units = "PER_UNIT"
                        THEN Rat(fn_in.x.Vabs[i], base[i])
                        ELSE Rat(fn_in.x.Vabs[i], 1) ]
       IN  fn_out' = [ fn_out EXCEPT
             !.obs = o,
             !.res = IF o.raised # "" THEN << >>
                     ELSE residual(o.z, cal_h(o.knownP, o.knownQ, o.knownV, o.Y,
                                              fn_in.x.delta, VabsK, n)) ]
    /\ fn_pc' = "residual"
    /\ UNCHANGED << other_than_fn, fn_in >>

\* one evaluation by least_squares of residual and cal_H at an iterate X0,
\* on the z, Y and known indices of state_estimator
FnJacobian ==
    /\ running = "fn"
    /\ fn_pc = "estimator_input"
    /\ \E x \in TrueStates :
        LET o == observed(fn_in.parameters, fn_in.topology, fn_in.P, fn_in.Q, fn_in.V)
            n == Len(fn_in.topology.admittance.ids)
            VabsK == [ i \in 1..n |-> Rat(x.Vabs[i], 1) ]
            X0 == x.delta \o VabsK
        IN  fn_out' = [ fn_out EXCEPT
              !.obs = o,
              !.X0 = X0,
              !.h = IF o.raised # "" THEN << >>
                    ELSE cal_h(o.knownP, o.knownQ, o.knownV, o.Y, x.delta, VabsK, n),
              !.H = IF o.raised # "" THEN << >>
                    ELSE cal_H(X0, o.z, n, o.knownP, o.knownQ, o.knownV, o.Y) ]
    /\ fn_pc' = "jacobian"
    /\ UNCHANGED << other_than_fn, fn_in >>

\* where_power_unbalanced(PQ, calculated, tol)
FnBalance ==
    /\ running = "fn"
    /\ fn_pc = "balance_input"
    /\ fn_out' = [ fn_out EXCEPT
                     !.bad = where_power_unbalanced(fn_in.PQ, fn_in.calc, fn_in.tol) ]
    /\ fn_pc' = "balanced"
    /\ UNCHANGED << other_than_fn, fn_in >>

\* permutation(from_list, to_list)
FnPermutation ==
    /\ running = "fn"
    /\ fn_pc = "permutation_input"
    /\ fn_out' = [ fn_out EXCEPT !.permute = permutation(fn_in.from_list, fn_in.to_list) ]
    /\ fn_pc' = "permuted"
    /\ UNCHANGED << other_than_fn, fn_in >>

\* agg_to_ids(x, ids)
FnAggregate ==
    /\ running = "fn"
    /\ fn_pc = "agg_input"
    /\ fn_out' = [ fn_out EXCEPT !.agg = agg_to_ids(fn_in.x, fn_in.ids) ]
    /\ fn_pc' = "aggregated"
    /\ UNCHANGED << other_than_fn, fn_in >>

FnNext ==
    \/ FnPermutation
    \/ FnAggregate
    \/ FnJacobian
    \/ FnReindex
    \/ FnReindexBack
    \/ FnGetIndices
    \/ FnObserved
    \/ FnBothUnits
    \/ FnResidual
    \/ FnBalance

----------------------------------------------------------------------------
Processes == { "estimator", "relay", "producer", "fn" }

Init ==
    /\ running \in Processes
    /\ IF running = "estimator" THEN EstInit
       ELSE EstInit /\ est_params.units = "PER_UNIT" /\ est_topology = Topology(
                "AdmittanceMatrix", [ i \in 1..NumNodes |-> i - 1 ], << CanonIds[1] >>)
    /\ RelayInit
    /\ ProdInit
    /\ IF running = "fn" THEN FnInit ELSE FnIdle

Next ==
    \/ EstNext
    \/ RelayNext
    \/ ProdNext
    \/ FnNext

Spec == Init /\ [][Next]_vars

\* a federate is a running process: once its while test has failed it goes on
\* to the statement after the loop.  The substrate owes no grant.
FairSpec == Spec /\ WF_vars(EstExit) /\ WF_vars(RelayExit)

----------------------------------------------------------------------------
(* Claims *)

MaxGranted(granted) == granted = HELICS_TIME_MAXTIME
Foreign(ids, mids) == \E k \in DOMAIN mids : mids[k] \notin Range(ids)
EstProcessStep == est_pc = "loop_head" /\ est_pc' \in { "publish_mag", "raised" }
EstLoopBoundary == est_pc \in { "created", "first_request", "loop_head", "requesting",
                                "terminated" }

C2_FreshnessGate ==
    [][ ( /\ est_pc = "loop_head"
          /\ est_granted < HELICS_TIME_MAXTIME
          /\ est_sub_V.has => est_sub_V.sn \in est_hist.consumed )
          => /\ est_hist'.calls = est_hist.calls
             /\ est_pub_mag' = est_pub_mag
             /\ est_pub_angle' = est_pub_angle
             /\ est_initial_ang' = est_initial_ang
             /\ est_initial_V' = est_initial_V
             /\ est_pc' = "requesting"
             /\ est_hist'.requests = est_hist.requests + 1 ]_vars

\* a tick was processed and published, and the iteration after it was skipped
C2_Witness ==
    /\ est_pc = "requesting"
    /\ est_pub_angle.n = 1
    /\ est_sub_V.sn \in est_hist.consumed

\* C3: two invocations of state_estimator, and two publications on voltage_mag,
\* are separated by a time request; no voltage payload is read twice; the loop
\* head after the publications finds the voltage input not updated.
C3_NoReprocessing ==
    [][ /\ (est_hist'.calls > est_hist.calls /\ est_hist.calls > 0)
              => /\ est_hist'.call.requests > est_hist.call.requests
                 /\ est_hist'.call.sn # est_hist.call.sn
        /\ (est_pub_mag'.n > est_pub_mag.n /\ est_pub_mag.n > 0)
              => est_pub_mag'.requests > est_pub_mag.requests
        /\ ~est_hist'.reread
        /\ (est_pc = "publish_angle" /\ est_pc' = "loop_head") => ~est_sub_V'.updated ]_vars

\* the second tick has been processed and its magnitudes published
C3_Witness ==
    /\ est_hist.calls = 2
    /\ est_pub_mag.n = 2
    /\ est_pub_mag.requests >= 2

\* C4 (as stated): however a federate's run ends, by the sentinel, the end of the
\* range or an exception, its connection was disconnected once and freed once.
C4_ReleasedOnEveryExit ==
    /\ est_pc \in { "terminated", "raised" } => est_vfed = [ disconnects |-> 1, frees |-> 1 ]
    /\ relay_pc \in { "terminated", "raised" } => relay_vfed = [ disconnects |-> 1, frees |-> 1 ]
    /\ prod_pc \in { "terminated", "raised" } => prod_vfed = [ disconnects |-> 1, frees |-> 1 ]

\* the inputs on which processing a tick fails: a foreign id in a measurement,
\* an unsupported unit system, base angles that are not one per node
C5_FailingInput ==
    \/ est_params.units \notin UnitSystem
    \/ Len(est_topology.base_voltage_angles.values) # Len(est_topology.admittance.ids)
    \/ \E sub \in { est_sub_V, est_sub_P, est_sub_Q } :
         sub.has /\ Foreign(est_topology.admittance.ids, sub.val.ids)

\* C5: processing a tick on a failing input raises, publishes nothing on either
\* publication, and runs no solve; after the exception the federate takes no
\* further step (no retry, no publication of an earlier result).
C5_FailedTickSilent ==
    [][ /\ (EstProcessStep /\ C5_FailingInput)
              => /\ est_pc' = "raised"
                 /\ est_pub_mag' = est_pub_mag
                 /\ est_pub_angle' = est_pub_angle
                 /\ est_hist'.solves = est_hist.solves
        /\ est_pc # "raised" ]_vars

\* a tick was published, then the next one failed inside state_estimator
C5_Witness ==
    /\ est_pc = "raised"
    /\ est_hist.error \in { "KeyError", "Exception", "AssertionError" }
    /\ est_hist.calls = 2
    /\ est_pub_mag.n = 1
    /\ est_pub_angle.n = 1

C6_WellFormed(a) ==
    /\ a.ids = est_topology.admittance.ids
    /\ Len(a.values) = Len(est_topology.admittance.ids)
    /\ a.time = est_hist.call.vtime

\* C6: each tick whose solve returned publishes one voltage-magnitude array and
\* then one voltage-angle array, both over the canonical ids with one value per
\* node and the time of the voltage input of the tick; at the loop boundaries the
\* two publications have published equally often, once per returned solve.
C6_Publications ==
    /\ EstLoopBoundary
         => /\ est_pub_mag.n = est_hist.solves
            /\ est_pub_angle.n = est_hist.solves
            /\ est_pub_mag.n > 0 => C6_WellFormed(est_pub_mag.last)
            /\ est_pub_angle.n > 0 => C6_WellFormed(est_pub_angle.last)
    /\ est_pc = "publish_mag"
         => /\ est_pub_mag.n + 1 = est_hist.solves
            /\ est_pub_angle.n + 1 = est_hist.solves
    /\ est_pc = "publish_angle"
         => /\ est_pub_mag.n = est_hist.solves
            /\ est_pub_angle.n + 1 = est_hist.solves
            /\ C6_WellFormed(est_pub_mag.last)

\* two ticks are published; the last voltage input was taken before its grant
\* and covers fewer nodes than the topology
C6_Witness ==
    /\ est_pc = "loop_head"
    /\ est_pub_angle.n = 2
    /\ est_pub_angle.last.time < est_granted
    /\ Len(est_sub_V.val.ids) < NumNodes

C7_Step ==
    /\ (est_pc = "loop_head" /\ MaxGranted(est_granted))
          => /\ est_pc' = "terminated"
             /\ est_vfed' = [ disconnects |-> 1, frees |-> 1 ]
    /\ MaxGranted(est_granted)
          => /\ est_hist'.calls = est_hist.calls
             /\ est_pub_mag' = est_pub_mag
             /\ est_pub_angle' = est_pub_angle
    /\ (relay_pc = "loop_head" /\ MaxGranted(relay_granted))
          => /\ relay_pc' = "terminated"
             /\ relay_vfed' = [ disconnects |-> 1, frees |-> 1 ]
    /\ MaxGranted(relay_granted)
          => /\ relay_hist'.ticks = relay_hist.ticks
             /\ relay_pub' = relay_pub

\* C7: in the estimator and the relay, the loop head reached with the sentinel
\* granted ends the loop and calls destroy; no invocation and no publication
\* follows the sentinel; and a federate granted the sentinel terminates.
C7_SentinelTerminates ==
    /\ [][C7_Step]_vars
    /\ (est_pc = "loop_head" /\ MaxGranted(est_granted)) ~> (est_pc = "terminated")
    /\ (relay_pc = "loop_head" /\ MaxGranted(relay_granted)) ~> (relay_pc = "terminated")

\* the estimator terminated after it had published a tick
C7_Witness ==
    /\ est_pc = "terminated"
    /\ MaxGranted(est_granted)
    /\ est_pub_angle.n > 0
    /\ est_vfed.disconnects = 1

C8_Functions ==
    /\ fn_pc = "indexed"
         => /\ fn_out.indices.raised = "KeyError" <=> Foreign(CanonIds, fn_in.L)
            /\ fn_out.indices.raised = ""
                 => /\ Len(fn_out.indices.idx) = Len(fn_in.L)
                    /\ \A k \in DOMAIN fn_in.L :
                         At(CanonIds, fn_out.indices.idx[k]) = fn_in.L[k]
    /\ fn_pc = "reindexed"
         => /\ fn_out.first.raised = "KeyError" <=> Foreign(fn_in.A.ids, fn_in.L)
            /\ fn_out.first.raised = "" => fn_out.first.arr.ids = fn_in.L

C8_Relay ==
    (relay_hist.ticks > 0 /\ Foreign(relay_hist.input.ids, relay_measurement))
        => /\ relay_pc = "raised"
           /\ relay_hist.error = "KeyError"

\* C8: get_indices raises exactly when an id of the measurement is not among the
\* topology's ids and otherwise returns the position of every id; reindex raises
\* exactly when a target id is not among the array's ids; the relay's tick with
\* such a target raises; and a tick of the estimator whose P, Q or V holds such
\* an id raises without a solve.
C8_StrictLookup ==
    [][ /\ C8_Functions'
        /\ C8_Relay'
        /\ ( /\ EstProcessStep
             /\ \E sub \in { est_sub_V, est_sub_P, est_sub_Q } :
                  sub.has /\ Foreign(est_topology.admittance.ids, sub.val.ids) )
              => /\ est_pc' = "raised"
                 /\ est_hist'.solves = est_hist.solves ]_vars

\* state_estimator raised KeyError on its first call, before any solve
C8_Witness ==
    /\ est_pc = "raised"
    /\ est_hist.error = "KeyError"
    /\ est_hist.calls = 1
    /\ est_hist.solves = 0

\* C9 (as stated): for a reordering L of A.ids, reindex(reindex(A, L), A.ids)
\* is A in every field.
C9_RoundTrip ==
    (fn_pc = "returned" /\ fn_in.L \in Reorderings(fn_in.A.ids))
        => /\ fn_out.second.raised = ""
           /\ fn_out.second.arr = fn_in.A

\* the array the claim gives for a tick: the input, with ids the loaded list and
\* values the input's values of those ids plus one draw each
C10_Expected ==
    [ relay_hist.input EXCEPT
        !.ids = relay_measurement,
        !.values = [ k \in DOMAIN relay_measurement |->
                       At(relay_hist.input.values,
                          InvMap(relay_hist.input.ids, relay_measurement[k]))
                       + Normal(relay_hist.rng + k) ] ]

\* C10 (as stated): the array a tick of the relay publishes is its input with
\* ids the list loaded in that tick and values the input's values of those ids
\* plus one draw each; no other field differs from the input's.
C10_RelayOutputShape ==
    (relay_pc = "requesting" /\ relay_hist.ticks > 0)
        => relay_pub.last = C10_Expected

\* C11 (as stated): the array a tick of the relay publishes has, when it has an
\* equipment_type, one equipment type per value, the k-th being that of the node
\* ids[k].
C11_ParallelArrays ==
    ( /\ relay_pc = "requesting"
      /\ relay_hist.ticks > 0
      /\ relay_pub.last.equipment_type.some )
        => /\ Len(relay_pub.last.equipment_type.v) = Len(relay_pub.last.values)
           /\ \A k \in DOMAIN relay_pub.last.ids :
                relay_pub.last.equipment_type.v[k] = EquipmentOf(relay_pub.last.ids[k])

C12_Step ==
    /\ relay_rng' = relay_hist'.drawn
    /\ relay_hist'.ticks = relay_hist.ticks => relay_rng' = relay_rng
    /\ (relay_hist'.ticks > relay_hist.ticks /\ relay_pc' = "requesting")
          => /\ relay_rng' = relay_rng + Len(relay_measurement')
             /\ Len(relay_pub'.last.values) = Len(relay_measurement')
             /\ \A k \in DOMAIN relay_measurement' :
                  relay_pub'.last.values[k] =
                      At(relay_hist'.input.values,
                         InvMap(relay_hist'.input.ids, relay_measurement'[k]))
                      + Normal(relay_hist.drawn + k)
    /\ relay_twin'.last = relay_pub'.last

\* C12: the generator starts at its seed and only a tick moves it, by one draw
\* per target id in target order (the k-th value of a tick gets the draw that
\* follows the draws of all earlier ticks and of the k - 1 ids before it), so
\* its position is the sum of the target sizes of the ticks so far; a second
\* relay instance handed the same inputs and target lists publishes the same
\* arrays.
C12_NoiseStream ==
    [][C12_Step]_vars

\* two ticks of one run with the same ids and the same target list got
\* different noise
C12_Witness ==
    /\ relay_hist.ticks = 2
    /\ relay_pc = "requesting"
    /\ relay_hist.prev.file = relay_hist.file
    /\ relay_hist.prev.ids = relay_hist.input.ids
    /\ relay_hist.prev.noise # relay_hist.noise
    /\ relay_twin.last = relay_pub.last

\* C13: a call of state_estimator that returns, with slack_index among the node
\* positions, returns the angle 0 at slack_index and at every node the solver's
\* angle minus the solver's angle at slack_index; the magnitudes are the
\* solver's, not shifted (times the node's base voltage in PER_UNIT).
C13_SlackReference ==
    [][ (est_hist'.calls > est_hist.calls /\ est_hist'.call.ret.raised = "")
          => LET c == est_hist'.call
                 n == Len(est_topology.admittance.ids)
                 base == est_topology.base_voltage_magnitudes.values
             IN  /\ c.slack_index.some
                 /\ c.slack_index.v \in 0..(n - 1)
                 /\ Len(c.ret.ang) = n
                 /\ At(c.ret.ang, c.slack_index.v) = 0
                 /\ \A i \in 1..n :
                      /\ c.ret.ang[i] = c.res_x[i] - At(c.res_x, c.slack_index.v)
                      /\ c.ret.mag[i] = c.res_x[n + i]
                            * (IF est_params.units = "PER_UNIT" THEN base[i] ELSE 1) ]_vars

\* a call returned with the slack at the second node, where the solver's angle
\* is not 0
C13_Witness ==
    /\ est_pc = "publish_mag"
    /\ est_hist.call.slack_index = Some(1)
    /\ At(est_hist.call.res_x, 1) # 0
    /\ est_hist.call.ret.ang[1] # 0
    /\ est_hist.call.ret.ang[2] = 0

\* C14: state_estimator called with units other than SI and PER_UNIT raises
\* before any solve and returns no estimate: the unit error (Exception), unless
\* an id lookup has already raised KeyError.
C14_UnitSystemError ==
    [][ ( /\ est_hist'.calls > est_hist.calls
          /\ est_params.units \notin { "SI", "PER_UNIT" } )
          => /\ est_hist'.call.ret.raised \in { "KeyError", "Exception" }
             /\ (\A sub \in { est_sub_V, est_sub_P, est_sub_Q } :
                    ~Foreign(est_topology.admittance.ids, sub.val.ids))
                  => est_hist'.call.ret.raised = "Exception"
             /\ ~est_hist'.call.ret.solved
             /\ est_hist'.call.ret.mag = << >>
             /\ est_hist'.call.ret.ang = << >>
             /\ est_hist'.solves = est_hist.solves
             /\ est_hist'.error = est_hist'.call.ret.raised
             /\ est_pc' = "raised" ]_vars

\* the first call was handed units outside the enumeration and raised for it
C14_Witness ==
    /\ est_pc = "raised"
    /\ est_hist.calls = 1
    /\ est_params.units = "OTHER"
    /\ est_hist.error = "Exception"
    /\ est_hist.solves = 0

\* the base voltage magnitude that the topology lists for the node id
C15_VbaseOf(topology, id) ==
    At(topology.base_voltage_magnitudes.values,
       InvMap(topology.base_voltage_magnitudes.ids, id))

\* C15 (as stated): in PER_UNIT, z is every voltage over the base voltage of its
\* own node, then every P over base_power, then every Q over base_power (100
\* when not given), nothing else changed; and Y'[i][j] is
\* Vbase[i] * Y[i][j] * Vbase[j] / (base_power * 1000).
C15_PerUnitObserved ==
    (fn_pc = "observed" /\ fn_in.parameters.units = "PER_UNIT")
        => LET bp == IF fn_in.parameters.base_power.some
                     THEN fn_in.parameters.base_power.v ELSE 100
               topology == fn_in.topology
               Y == topology.admittance.admittance_matrix
               Vb == [ i \in 1..NumNodes |-> C15_VbaseOf(topology, CanonIds[i]) ]
           IN  /\ fn_out.obs.raised = ""
               /\ fn_out.obs.z =
                      [ k \in DOMAIN fn_in.V.values |->
                          Rat(fn_in.V.values[k], C15_VbaseOf(topology, fn_in.V.ids[k])) ]
                      \o [ k \in DOMAIN fn_in.P.values |-> Rat(fn_in.P.values[k], bp) ]
                      \o [ k \in DOMAIN fn_in.Q.values |-> Rat(fn_in.Q.values[k], bp) ]
               /\ \A i, j \in 1..NumNodes :
                    fn_out.obs.Y[i][j] =
                        << Rat(Vb[i] * Y[i][j][1] * Vb[j], bp * 1000),
                           Rat(Vb[i] * Y[i][j][2] * Vb[j], bp * 1000) >>

\* C16 (as stated): on the same topology, P, Q, V, slack index and physically
\* equal guess, both unit systems run to completion and return the same
\* magnitudes in volts and the same angles.
C16_UnitEquivalence ==
    fn_pc = "estimated"
        => /\ fn_out.pu.raised = ""
           /\ fn_out.si.raised = ""
           /\ fn_out.si.mag = fn_out.pu.mag
           /\ fn_out.si.ang = fn_out.pu.ang

\* C17 (as stated): with V, P and Q known at every node and generated from a
\* true state, the residual at the true state, from state_estimator's z and
\* cal_h, is the zero vector.
C17_FullyObservedExact ==
    fn_pc = "residual"
        => /\ fn_out.obs.raised = ""
           /\ Len(fn_out.res) = 3 * NumNodes
           /\ \A k \in DOMAIN fn_out.res : fn_out.res[k] = Rat(0, 1)

\* the error at node i exceeds tol: |PQ[i] + calculated[i]| > tol
C18_Over(PQ, calc, tol, i) ==
    (PQ[i][1] + calc[i][1]) * (PQ[i][1] + calc[i][1])
      + (PQ[i][2] + calc[i][2]) * (PQ[i][2] + calc[i][2]) > tol * tol

\* C18: where_power_unbalanced(PQ, calc, tol) returns, once each and in node
\* order, exactly the ids of the nodes where |PQ + calc| > tol, strictly: none
\* when the two sum to zero at every node, and the single id n when n is the
\* only node whose sum is not zero and it exceeds tol.
C18_CheckerResult ==
    fn_pc = "balanced"
        => LET over(i) == C18_Over(fn_in.PQ, fn_in.calc, fn_in.tol, i)
               zero(i) == CAdd(fn_in.PQ[i], fn_in.calc[i]) = << 0, 0 >>
           IN  /\ Range(fn_out.bad) = { CanonIds[i] : i \in { j \in 1..NumNodes : over(j) } }
               /\ IsInjective(fn_out.bad)
               /\ \A k, l \in DOMAIN fn_out.bad :
                    k < l => IdNum(fn_out.bad[k]) < IdNum(fn_out.bad[l])
               /\ (\A i \in 1..NumNodes : zero(i)) => fn_out.bad = << >>
               /\ \A n \in 1..NumNodes :
                    (over(n) /\ \A i \in 1..NumNodes \ { n } : zero(i))
                        => fn_out.bad = << CanonIds[n] >>

\* with the default tol the second node is reported and the first, whose error
\* is exactly tol, is not
C18_Witness ==
    /\ fn_pc = "balanced"
    /\ fn_in.tol = DefaultTol
    /\ CAdd(fn_in.PQ[1], fn_in.calc[1]) = << 1, 0 >>
    /\ CAdd(fn_in.PQ[2], fn_in.calc[2]) = << 2, 2 >>
    /\ fn_out.bad = << CanonIds[2] >>

\* C19: a tick of go_cosim whose injections and calculated power differ by more
\* than the default tol at some node raises ValueError, with the bad buses and
\* both quantities at them in its text, and publishes nothing; after the error
\* go_cosim takes no further step: no later tick is solved or published.
C19_ImbalanceHardStop ==
    [][ /\ ( /\ prod_pc = "granted"
             /\ \E i \in 1..NumNodes :
                  C18_Over(prod_hist'.PQ, prod_hist'.calc, DefaultTol, i) )
              => /\ prod_pc' = "raised"
                 /\ prod_hist'.error = "ValueError"
                 /\ prod_pub' = prod_pub
                 /\ Range(prod_hist'.message.bad) =
                        { CanonIds[i] : i \in { j \in 1..NumNodes :
                            C18_Over(prod_hist'.PQ, prod_hist'.calc, DefaultTol, j) } }
                 /\ \A k \in DOMAIN prod_hist'.message.bad :
                      LET i == IdNum(prod_hist'.message.bad[k])
                      IN  /\ prod_hist'.message.PQ[k] = prod_hist'.PQ[i]
                          /\ prod_hist'.message.calc[k] = prod_hist'.calc[i]
        /\ prod_pc # "raised" ]_vars

\* the first tick was published, the second found a bad bus
C19_Witness ==
    /\ prod_pc = "raised"
    /\ prod_hist.solves = 2
    /\ prod_hist.message.bad = << CanonIds[2] >>
    /\ \A c \in TickChannels : prod_pub[c].n = 1

\* C21: a call of state_estimator whose solve ended without meeting its
\* tolerances returns as one that met them: the tick goes on to publish, its
\* result is the solver's vector (angles shifted by the slack's), and both
\* publications carry it.
C21_NonconvergencePublished ==
    [][ /\ ( /\ est_hist'.calls > est_hist.calls
             /\ est_hist'.call.ret.solved
             /\ ~est_hist'.call.success )
              => LET c == est_hist'.call
                     n == Len(est_topology.admittance.ids)
                 IN  /\ c.ret.raised \in { "", "IndexError" }
                     /\ c.slack_index.some => c.ret.raised = ""
                     /\ c.ret.raised = ""
                          => /\ est_pc' = "publish_mag"
                             /\ est_hist'.error = ""
                             /\ est_result'.mag = c.ret.mag
                             /\ est_result'.ang = c.ret.ang
                             /\ \A i \in 1..n :
                                  c.ret.ang[i] = c.res_x[i] - At(c.res_x, c.slack_index.v)
        /\ (est_pc = "publish_mag" /\ ~est_hist.call.success)
              => /\ est_pub_mag'.n = est_pub_mag.n + 1
                 /\ est_pub_mag'.last.values = est_hist.call.ret.mag
                 /\ est_pc' = "publish_angle"
        /\ (est_pc = "publish_angle" /\ ~est_hist.call.success)
              => /\ est_pub_angle'.n = est_pub_angle.n + 1
                 /\ est_pub_angle'.last.values = est_hist.call.ret.ang
                 /\ est_pc' = "loop_head" ]_vars

\* both arrays of a tick whose solve did not converge are published
C21_Witness ==
    /\ est_pc = "loop_head"
    /\ est_hist.calls = 1
    /\ ~est_hist.call.success
    /\ est_pub_mag.n = 1
    /\ est_pub_angle.n = 1
    /\ est_pub_angle.last.values = est_hist.call.ret.ang

\* C22: the producer publishes the topology once: the publication happens
\* when nothing else has been published, no time has been requested or
\* granted and nothing solved; every time request and every measurement
\* publication finds it published once and leaves it so; the topology the
\* estimator decodes at the head of its loop never changes.
C22_TopologyOnce ==
    [][ /\ prod_pub'["topology"] # prod_pub["topology"]
              => /\ prod_pc = "created"
                 /\ prod_pub["topology"].n = 0
                 /\ prod_pub'["topology"].n = 1
                 /\ \A c \in Channels : prod_pub[c].n = 0
                 /\ \A c \in Channels \ { "topology" } : prod_pub'[c].n = 0
                 /\ prod_granted = -1
                 /\ prod_request = 0
                 /\ prod_hist.solves = 0
        /\ prod_pc' \in { "requesting", "granted", "publishing", "raised", "terminated" }
              => prod_pub'["topology"].n = 1
        /\ (\E c \in Channels \ { "topology" } : prod_pub'[c] # prod_pub[c])
              => /\ prod_pub["topology"].n = 1
                 /\ prod_pub'["topology"] = prod_pub["topology"]
        /\ est_topology' = est_topology ]_vars

\* a producer run through all its ticks has published the topology once
C22_Witness ==
    /\ prod_pc = "terminated"
    /\ prod_pub["topology"] = [ n |-> 1, time |-> 0 ]
    /\ \A c \in Channels \ { "topology" } : prod_pub[c].n = NumberOfTimesteps

\* C23: for from_list and to_list that reorder the same duplicate-free
\* elements, permutation returns one index per element of from_list, the
\* index in to_list at which that element stands, and the indices are a
\* bijection on 0..len-1; it raises KeyError when an element of from_list
\* is absent from to_list.
C23_PermutationContract ==
    fn_pc = "permuted"
      => LET f == fn_in.from_list
             t == fn_in.to_list
             out == fn_out.permute
             last == Len(f) - 1
         IN  /\ (Range(f) = Range(t) /\ Len(f) = Len(t))
                   => /\ out.raised = ""
                      /\ Len(out.idx) = Len(f)
                      /\ \A i \in 0..last :
                           /\ At(out.idx, i) \in 0..last
                           /\ At(t, At(out.idx, i)) = At(f, i)
                      /\ Range(out.idx) = 0..last
                      /\ IsInjective(out.idx)
             /\ (\E k \in DOMAIN f : f[k] \notin Range(t))
                   => out = [ raised |-> "KeyError", idx |-> << >> ]

\* a three-element rotation, whose permutation differs from its inverse
C23_Witness ==
    /\ fn_pc = "permuted"
    /\ fn_in.from_list = << "n1", "n2", ForeignId >>
    /\ fn_in.to_list = << "n2", ForeignId, "n1" >>
    /\ fn_out.permute = [ raised |-> "", idx |-> << 2, 0, 1 >> ]

\* C24: for a topology and measurements whose ids all occur among the
\* admittance ids, knownP, knownQ and knownV, the results of get_indices,
\* have one entry per id of their measurement, in the measurement's order,
\* and the admittance id at entry k is the measurement's k-th id.
C24_GetIndicesResult ==
    (/\ fn_pc = "observed"
     /\ \A m \in { fn_in.P, fn_in.Q, fn_in.V } : ~Foreign(fn_in.topology.admittance.ids, m.ids))
      => LET ids == fn_in.topology.admittance.ids
             Selects(idx, m) ==
                 /\ Len(idx) = Len(m.ids)
                 /\ \A k \in DOMAIN m.ids :
                      /\ idx[k] \in 0..(Len(ids) - 1)
                      /\ At(ids, idx[k]) = m.ids[k]
         IN  /\ fn_out.obs.raised \in { "", "AttributeError" }
             /\ Selects(fn_out.obs.knownP, fn_in.P)
             /\ Selects(fn_out.obs.knownQ, fn_in.Q)
             /\ Selects(fn_out.obs.knownV, fn_in.V)

\* measurements listed against the canonical order
C24_Witness ==
    /\ fn_pc = "observed"
    /\ fn_in.topology.admittance.ids = << "n1", "n2" >>
    /\ fn_in.V.ids = << "n2", "n1" >>
    /\ fn_in.P.ids = << "n2", "n1" >>
    /\ fn_in.Q.ids = << "n2" >>
    /\ fn_out.obs.knownV = << 1, 0 >>
    /\ fn_out.obs.knownP = << 1, 0 >>
    /\ fn_out.obs.knownQ = << 1 >>

\* the injected power at node i (from 0) of the iterate X0 under the scaled
\* admittance of the call: Vp[i] * conj(sum over j of Y[i][j] * Vp[j])
C25_Power(i) ==
    LET n == Len(fn_in.topology.admittance.ids)
        Vp == [ j \in 1..n |-> CRScale(ExpI(fn_out.X0[j]), fn_out.X0[n + j]) ]
    IN  CRMul(Vp[i + 1],
              CRConj(CRSum([ j \in 1..n |-> CRMul(fn_out.obs.Y[i + 1][j], Vp[j]) ])))

\* the magnitude columns of row r weighted by the magnitudes of the iterate
C25_Radial(r) ==
    LET n == Len(fn_in.topology.admittance.ids)
    IN  RatSum([ j \in 1..n |-> RatMul(fn_out.H[r][n + j], fn_out.X0[n + j]) ])

\* C25: z, the predicted vector and the Jacobian have one row per known
\* voltage, then per known real power, then per known reactive power, and row
\* k of each is about the same node and quantity: voltage row k is the
\* magnitude at knownV[k], with a single non-zero entry, of magnitude one, in
\* column N + knownV[k] of the Jacobian's 2N columns; real and reactive rows
\* are the real and imaginary parts of the injected power at knownP[k] and
\* knownQ[k], and each Jacobian row is the derivative of its own predicted
\* entry (zero along a common rotation of the angles, and along the
\* magnitudes once the entry for a voltage row and twice for a power row).
C25_RowAlignment ==
    (fn_pc = "jacobian" /\ fn_out.obs.raised = "")
      => LET o == fn_out.obs
             n == Len(fn_in.topology.admittance.ids)
             nV == Len(o.knownV)
             nP == Len(o.knownP)
             nQ == Len(o.knownQ)
             rows == nV + nP + nQ
             base == fn_in.topology.base_voltage_magnitudes.values
             bp == base_power_of(fn_in.parameters)
             H == fn_out.H
             h == fn_out.h
         IN  /\ Len(o.z) = rows /\ Len(h) = rows /\ Len(H) = rows
             /\ \A r \in 1..rows :
                  /\ Len(H[r]) = 2 * n
                  /\ RatSum([ j \in 1..n |-> H[r][j] ]) = Rat(0, 1)
             /\ \A k \in 1..nV :
                  /\ o.z[k] = Rat(fn_in.V.values[k], At(base, o.knownV[k]))
                  /\ h[k] = fn_out.X0[n + o.knownV[k] + 1]
                  /\ \A c \in 1..(2 * n) :
                       IF c = n + o.knownV[k] + 1
                       THEN H[k][c] \in { Rat(1, 1), Rat(-1, 1) }
                       ELSE H[k][c] = Rat(0, 1)
                  /\ C25_Radial(k) = RatNeg(h[k])
             /\ \A k \in 1..nP :
                  /\ o.z[nV + k] = Rat(-fn_in.P.values[k], bp)
                  /\ h[nV + k] = C25_Power(o.knownP[k])[1]
                  /\ C25_Radial(nV + k) = RatNeg(RatMul(Rat(2, 1), h[nV + k]))
             /\ \A k \in 1..nQ :
                  /\ o.z[nV + nP + k] = Rat(-fn_in.Q.values[k], bp)
                  /\ h[nV + nP + k] = C25_Power(o.knownQ[k])[2]
                  /\ C25_Radial(nV + nP + k) = RatNeg(RatMul(Rat(2, 1), h[nV + nP + k]))

\* two voltage rows against the canonical order, two real rows, one reactive
\* row, at an iterate with unequal angles and magnitudes
C25_Witness ==
    /\ fn_pc = "jacobian"
    /\ fn_out.obs.raised = ""
    /\ fn_out.obs.knownV = << 1, 0 >>
    /\ fn_out.obs.knownP = << 1, 0 >>
    /\ fn_out.obs.knownQ = << 1 >>
    /\ Len(fn_out.H) = 5
    /\ fn_out.X0[1] # fn_out.X0[2]
    /\ fn_out.X0[3] # fn_out.X0[4]
    /\ fn_out.H[1][4] = Rat(-1, 1)
    /\ fn_out.h[3] # fn_out.h[5]
    /\ fn_out.h[5] # Rat(0, 1)

\* C26: the carried state changes only in the first tick that passes the
\* freshness gate, from None to the flat start: the angle is the topology's
\* base voltage angles and the magnitude is one scalar, the mean over the
\* observed voltage ids of the value divided by the base voltage magnitude at
\* the id's position among the admittance ids; every later tick leaves the
\* carried state alone and hands it to state_estimator.
C26_FlatStart ==
    [][ EstProcessStep
          => LET ids == est_topology.admittance.ids
                 base == est_topology.base_voltage_magnitudes.values
                 V == est_sub_V.val
                 pos(id) == CHOOSE p \in DOMAIN ids : ids[p] = id
                 mean == RatDivInt(RatSum([ k \in DOMAIN V.ids |->
                                              Rat(V.values[k], base[pos(V.ids[k])]) ]),
                                   Len(V.ids))
             IN  /\ (est_initial_V' # est_initial_V \/ est_initial_ang' # est_initial_ang)
                       => /\ est_hist.consumed = {}
                          /\ est_hist.calls = 0
                          /\ est_initial_V.kind = "None"
                          /\ est_initial_ang.kind = "None"
                          /\ est_initial_ang' = [ kind |-> "ndarray",
                                                  val |-> est_topology.base_voltage_angles.values ]
                          /\ est_initial_V' = [ kind |-> "scalar", val |-> mean ]
                 /\ est_hist.consumed # {}
                       => /\ est_initial_V.kind = "scalar"
                          /\ est_initial_ang.kind = "ndarray"
                          /\ est_initial_V' = est_initial_V
                          /\ est_initial_ang' = est_initial_ang
                          /\ est_hist'.calls > est_hist.calls
                               => /\ est_hist'.call.initial_V = est_initial_V
                                  /\ est_hist'.call.initial_ang = est_initial_ang
                 /\ est_hist'.calls > est_hist.calls
                       => /\ est_initial_V'.kind = "scalar"
                          /\ est_initial_ang'.kind = "ndarray" ]_vars

\* after a second processed tick the carried state is the flat start of the
\* first, a mean that is not a whole number
C26_Witness ==
    /\ est_pc = "loop_head"
    /\ est_hist.calls = 2
    /\ Cardinality(est_hist.consumed) = 2
    /\ est_initial_V.kind = "scalar"
    /\ est_initial_V.val[2] > 1
    /\ est_initial_V = est_hist.call.initial_V
    /\ est_initial_ang.val = est_topology.base_voltage_angles.values

\* C27: agg_to_ids(x, ids) has one entry per id of ids, in the order of ids,
\* the sum of the entries of x on that id (0 when there is none, all 0 when x
\* is empty), and its total is the total of x.
C27_Aggregation ==
    fn_pc = "aggregated"
      => LET x == fn_in.x
             ids == fn_in.ids
             on(id) == { k \in DOMAIN x : x[k].id = id }
             RECURSIVE total(_)
             total(K) == IF K = {} THEN 0
                         ELSE LET k == CHOOSE k \in K : TRUE
                              IN  x[k].value + total(K \ { k })
         IN  /\ Len(fn_out.agg) = Len(ids)
             /\ \A i \in DOMAIN ids : fn_out.agg[i] = total(on(ids[i]))
             /\ SumSeq(fn_out.agg) = total(DOMAIN x)

\* C28: whenever state_estimator runs a solve, the real-power, the
\* reactive-power and the voltage payloads handed to it carry the same time.
C28_ConsistentSnapshot ==
    (est_hist.calls > 0 /\ est_hist.call.ret.solved)
        => /\ est_hist.call.ptime = est_hist.call.vtime
           /\ est_hist.call.qtime = est_hist.call.vtime

\* C29: after a solve of go_cosim, every node, the source nodes included,
\* whose aggregated declared injections and calculated power differ by more
\* than tol is among the reported buses and the tick has raised.
C29_EveryNodeChecked ==
    prod_hist.solves > 0
        => \A i \in 1..NumNodes :
             C18_Over(prod_hist.aggregated, prod_hist.calc, DefaultTol, i)
                 => /\ prod_pc = "raised"
                    /\ CanonIds[i] \in Range(prod_hist.bad)

\* C30: every call of state_estimator gets a slack index that is a position
\* of the admittance ids, the one holding the first entry of slack_bus; a
\* returned result has angle 0 there, and every other node, further entries
\* of slack_bus included, has the solver's angle less the solver's angle at
\* that position.
C30_ValidSlackIndex ==
    [][ est_hist'.calls > est_hist.calls
          => LET c == est_hist'.call
                 ids == est_topology.admittance.ids
                 n == Len(ids)
             IN  /\ c.slack_index.some
                 /\ c.slack_index.v \in 0..(n - 1)
                 /\ At(ids, c.slack_index.v) = est_topology.slack_bus[1]
                 /\ (c.ret.solved /\ c.ret.raised = "")
                      => /\ At(c.ret.ang, c.slack_index.v) = 0
                         /\ c.ret.ang_ndim = 1
                         /\ \A i \in 0..(n - 1) :
                              At(c.ret.ang, i) = At(c.res_x, i) - At(c.res_x, c.slack_index.v) ]_vars

\* slack_bus lists both nodes; the first is pinned and the second is not
C30_Witness ==
    /\ est_hist.calls > 0
    /\ est_hist.call.ret.raised = ""
    /\ est_hist.call.ret.solved
    /\ est_topology.slack_bus = << "n1", "n2" >>
    /\ est_hist.call.slack_index = Some(0)
    /\ est_hist.call.ret.ang[1] = 0
    /\ est_hist.call.ret.ang[2] # 0

====
